---------------------------- MODULE Spec2Model ----------------------------
(* Event-study engine of caracas-signal: return computation, index          *)
(* alignment, daily beta analysis, intraday factor model, spread placebo     *)
(* percentile, and the per-ticker batch loops of the forensic report.        *)
(*                                                                           *)
(* Floats are modelled exactly: a finite value is a normalised rational      *)
(* <<n, d>> with d > 0; the IEEE specials are the pairs with d = 0: NaN is   *)
(* <<0, 0>>, +inf is <<1, 0>> and -inf is <<-1, 0>>.  A pandas Series is a   *)
(* sequence of records [t |-> label, v |-> value] in index order.            *)
EXTENDS Integers, Sequences, FiniteSets, TLC

(***************************************************************************)
(* Exact float arithmetic                                                  *)
(***************************************************************************)
NaN == <<0, 0>>
PosInf == <<1, 0>>
NegInf == <<-1, 0>>

Abs(n) == IF n < 0 THEN -n ELSE n

RECURSIVE GCD(_, _)
GCD(a, b) == IF b = 0 THEN a ELSE GCD(b, a % b)

Norm(n, d) ==
    LET g == GCD(Abs(n), Abs(d))
        s == IF d < 0 THEN -1 ELSE 1
    IN  <<s * (n \div g), s * (d \div g)>>

R(n) == <<n, 1>>
Zero == R(0)
One == R(1)

IsFinite(x) == x[2] # 0
IsNaN(x) == x = NaN
Sign(x) == IF x[1] > 0 THEN 1 ELSE IF x[1] < 0 THEN -1 ELSE 0

FNeg(x) == <<-x[1], x[2]>>

FAdd(x, y) ==
    CASE x = NaN \/ y = NaN -> NaN
      [] ~IsFinite(x) /\ ~IsFinite(y) -> IF x = y THEN x ELSE NaN
      [] ~IsFinite(x) -> x
      [] ~IsFinite(y) -> y
      [] OTHER ->
           LET g == GCD(x[2], y[2])
               m == y[2] \div g
               k == x[2] \div g
           IN  Norm(x[1] * m + y[1] * k, x[2] * m)

FSub(x, y) == FAdd(x, FNeg(y))

FMul(x, y) ==
    CASE x = NaN \/ y = NaN -> NaN
      [] ~IsFinite(x) \/ ~IsFinite(y) ->
           IF Sign(x) * Sign(y) = 0 THEN NaN
           ELSE IF Sign(x) * Sign(y) > 0 THEN PosInf ELSE NegInf
      [] OTHER ->
           LET a == Norm(x[1], y[2])
               b == Norm(y[1], x[2])
           IN  Norm(a[1] * b[1], a[2] * b[2])

\* numpy float64 division: x/0 is +-inf (nan for 0/0) with a warning, never
\* an exception.
FDiv(x, y) ==
    CASE x = NaN \/ y = NaN -> NaN
      [] ~IsFinite(x) /\ ~IsFinite(y) -> NaN
      [] ~IsFinite(x) -> IF Sign(y) < 0 THEN FNeg(x) ELSE x
      [] ~IsFinite(y) -> Zero
      [] y[1] = 0 ->
           IF x[1] = 0 THEN NaN ELSE IF x[1] > 0 THEN PosInf ELSE NegInf
      [] OTHER -> FMul(x, Norm(y[2], y[1]))

\* x < y on floats; any comparison with NaN is False.
FLt(x, y) ==
    CASE x = NaN \/ y = NaN -> FALSE
      [] x = y -> FALSE
      [] x = NegInf \/ y = PosInf -> TRUE
      [] x = PosInf \/ y = NegInf -> FALSE
      [] OTHER -> x[1] * y[2] < y[1] * x[2]

(***************************************************************************)
(* Series helpers                                                          *)
(***************************************************************************)
Row(t, v) == [t |-> t, v |-> v]

Index(s) == [k \in 1..Len(s) |-> s[k].t]
Values(s) == [k \in 1..Len(s) |-> s[k].v]
Labels(s) == {s[k].t : k \in 1..Len(s)}

RECURSIVE SelectRange(_, _, _, _)
\* The elements q[k], lo <= k <= hi, whose mask[k] is TRUE, in order
\* (split in halves to keep the evaluation shallow).
SelectRange(q, mask, lo, hi) ==
    IF lo > hi THEN <<>>
    ELSE IF lo = hi THEN (IF mask[lo] THEN <<q[lo]>> ELSE <<>>)
    ELSE LET mid == (lo + hi) \div 2
         IN  SelectRange(q, mask, lo, mid) \o SelectRange(q, mask, mid + 1, hi)

\* s[mask] for a boolean mask of the same length (positional).
SelectRows(s, mask) == SelectRange(s, mask, 1, Len(s))

\* Series.diff() in place of pct_change(): the change is not divided by the
\* previous close.
PctChangeAsDiff(s) ==
    [k \in 1..Len(s) |->
        Row(s[k].t, IF k = 1 THEN NaN ELSE FSub(s[k].v, s[k - 1].v))]

\* Series.pct_change(): same index, first value NaN, then
\* close[i] / close[i-1] - 1.
PctChange(s) ==
    [k \in 1..Len(s) |->
        Row(s[k].t,
            IF k = 1 THEN NaN ELSE FSub(FDiv(s[k].v, s[k - 1].v), One))]

\* fillna(0) in place of dropna(): the leading NaN row is kept as a zero.
DropnaAsFill(s) ==
    [k \in 1..Len(s) |-> Row(s[k].t, IF IsNaN(s[k].v) THEN Zero ELSE s[k].v)]

\* Series.dropna(): the rows whose value is not NaN.
Dropna(s) == SelectRows(s, [k \in 1..Len(s) |-> ~IsNaN(s[k].v)])

\* close.pct_change().dropna()
Returns(s) == Dropna(PctChange(s))

\* A running product that does not carry the product so far.
CumprodNoCarry(vals, acc) == vals

RECURSIVE Cumprod(_, _)
\* Series.cumprod(): running product, acc is the product so far.
Cumprod(vals, acc) ==
    IF vals = <<>> THEN <<>>
    ELSE LET p == FMul(acc, Head(vals))
         IN  <<p>> \o Cumprod(Tail(vals), p)


RECURSIVE FSum(_)
FSum(vs) == IF vs = <<>> THEN Zero ELSE FAdd(Head(vs), FSum(Tail(vs)))

\* The elements of sequence q that belong to set S, in order.
Filter(q, S) == SelectRange(q, [k \in 1..Len(q) |-> q[k] \in S], 1, Len(q))

\* The first occurrence of every element of q.
Unique(q) ==
    SelectRange(q, [k \in 1..Len(q) |-> \A j \in 1..(k - 1) : q[j] # q[k]], 1, Len(q))

\* Index.intersection(other): the labels of idx that occur in other, each once.
Intersection(idx, other) ==
    Unique(Filter(idx, {other[k] : k \in 1..Len(other)}))

RECURSIVE LocRange(_, _, _, _)
LocRange(s, idx, lo, hi) ==
    IF lo > hi THEN <<>>
    ELSE IF lo = hi THEN SelectSeq(s, LAMBDA r : r.t = idx[lo])
    ELSE LET mid == (lo + hi) \div 2
         IN  LocRange(s, idx, lo, mid) \o LocRange(s, idx, mid + 1, hi)

\* s.loc[idx]: for every label of idx, in order, all rows of s carrying it.
Loc(s, idx) == LocRange(s, idx, 1, Len(idx))

\* The value of the (first) row of s labelled t.
At(s, t) == s[CHOOSE k \in 1..Len(s) : s[k].t = t /\ \A j \in 1..(k - 1) : s[j].t # t].v

RECURSIVE SortSet(_)
\* The elements of a finite set of integers in increasing order.
SortSet(S) ==
    IF S = {} THEN <<>>
    ELSE LET m == CHOOSE x \in S : \A y \in S : x <= y
         IN  <<m>> \o SortSet(S \ {m})

\* a - b on two Series with unique labels: aligned on the union of the
\* labels (sorted); NaN where a label is missing from either side.
SubAligned(a, b) ==
    LET idx == SortSet(Labels(a) \cup Labels(b))
    IN  [k \in 1..Len(idx) |->
            Row(idx[k],
                IF idx[k] \in Labels(a) /\ idx[k] \in Labels(b)
                THEN FSub(At(a, idx[k]), At(b, idx[k]))
                ELSE NaN)]

\* scalar * Series
Scale(c, s) == [k \in 1..Len(s) |-> Row(s[k].t, FMul(c, s[k].v))]

\* Series.std() squared: sample variance (ddof = 1) over the non-NaN values;
\* NaN with fewer than two of them.  The standard deviation itself is
\* carried as its square throughout.
Variance(s) ==
    LET vs == Values(Dropna(s))
        n == Len(vs)
        mean == FDiv(FSum(vs), R(n))
        dev == [k \in 1..n |-> FMul(FSub(vs[k], mean), FSub(vs[k], mean))]
    IN  IF n < 2 THEN NaN ELSE FDiv(FSum(dev), R(n - 1))

\* x / std where var = std^2: the quotient as its sign and its square.
\* Division by a zero std gives +-inf, or NaN for 0/0 (numpy float64).
RootDiv(x, var) ==
    LET sq == FDiv(FMul(x, x), var)
    IN  [sgn |-> IF IsNaN(sq) THEN 0 ELSE Sign(x), sq |-> sq]

(***************************************************************************)
(* Bounds of the input domains                                             *)
(***************************************************************************)
MaxBars == 4     \* longest price series of the return-computation runs
MaxClose == 3    \* closes are drawn from 1..MaxClose (close > 0)
MaxStartSkip == 2 \* a daily file starts at day 1..1+MaxStartSkip
MaxAfter == 1    \* a daily file ends at most MaxAfter days after the event
GapDate == 5     \* the pre-event day a daily file with a hole lacks
TrainSlack == 1  \* training bars range up to MinTrainBars + TrainSlack
MaxRawRows == 2  \* longest raw 5m file of the alignment runs
MaxDays == 3     \* baseline days of the placebo runs
MaxProviderRows == 2 \* most rows the data provider returns for a call
MaxZHundredths == 200 \* z-scores of the significance runs: -2.00 .. 2.00
MaxLoadRows == 3 \* longest raw 5m file of the loading runs
MaxLeakBars == 3 \* session bars of a frame of the leak-spread runs
MaxScale == 2    \* largest factor between two correlated series
MaxOffset == 1   \* largest constant added to a correlated series
WindowReach == 2 \* a price window spans the event date -+ WindowReach days

(***************************************************************************)
(* Daily beta analysis (models.py)                                         *)
(***************************************************************************)
\* Dates of daily bars are day numbers; 2026-01-02 is day EventDate.
EventDate == 33
MinDailyBars == 30

NoFile == [exists |-> FALSE, rows |-> <<>>]
File(rows) == [exists |-> TRUE, rows |-> rows]

\* scipy.stats.linregress(x, y).slope = cov(x, y) / var(x).
LinregressSlope(x, y) ==
    LET n == R(Len(x))
        sx == FSum(x)
        sy == FSum(y)
        sxy == FSum([k \in 1..Len(x) |-> FMul(x[k], y[k])])
        sxx == FSum([k \in 1..Len(x) |-> FMul(x[k], x[k])])
    IN  FDiv(FSub(FMul(n, sxy), FMul(sx, sy)),
             FSub(FMul(n, sxx), FMul(sx, sx)))

\* common_idx = asset_returns.index.intersection(market_returns.index): the
\* dates of the observation pairs of the fit.
FitIndex(asset_returns, market_returns) ==
    Intersection(Index(asset_returns), Index(market_returns))

calculate_beta(asset_returns, market_returns) ==
    LET common_idx == FitIndex(asset_returns, market_returns)
        y == Values(Loc(asset_returns, common_idx))
        x == Values(Loc(market_returns, common_idx))
    IN  IF Len(common_idx) < MinDailyBars THEN NaN
        ELSE LinregressSlope(x, y)

\* sigma == 0 gives an explicit NaN; otherwise (return_val - mu) / sigma.
calculate_z_score(return_val, history) ==
    LET vs == Values(Dropna(history))
        mu == FDiv(FSum(vs), R(Len(vs)))
        var == Variance(history)
    IN  IF var = Zero THEN [sgn |-> 0, sq |-> NaN]
        ELSE RootDiv(FSub(return_val, mu), var)

\* The mask with the event date let in.
HistoryMaskInclusive(rets) == [k \in 1..Len(rets) |-> rets[k].t <= EventDate]

\* target_rets.index.date < event_date
HistoryMask(rets) == [k \in 1..Len(rets) |-> rets[k].t < EventDate]
\* rets.index.date == event_date
EventMask(rets) == [k \in 1..Len(rets) |-> rets[k].t = EventDate]

BetaNone == [status |-> "None"]
BetaRaised(e) == [status |-> e]

\* Division by the variance of the residuals in place of their deviation.
ZScoreOfVariance(abnormal_ret, residual_var) ==
    RootDiv(abnormal_ret, FMul(residual_var, residual_var))

\* Division of the abnormal return by the residual standard deviation (line 113).
ZScoreOf(abnormal_ret, residual_var) == RootDiv(abnormal_ret, residual_var)

\* market_rets[history_mask]: a boolean mask of another length is an
\* IndexError, raised outside the function's try block.
MaskFits(rets, mask) == Len(rets) = Len(mask)

run_beta_analysis(target_ticker, market_ticker, tdf, mdf) ==
    IF ~tdf.exists \/ ~mdf.exists THEN BetaNone
    ELSE
    LET target_rets == Returns(tdf.rows)
        market_rets == Returns(mdf.rows)
        history_mask == HistoryMask(target_rets)
    IN
    IF ~MaskFits(market_rets, history_mask) THEN BetaRaised("IndexError")
    ELSE
    LET target_hist == SelectRows(target_rets, history_mask)
        market_hist == SelectRows(market_rets, history_mask)
        beta == calculate_beta(target_hist, market_hist)
        target_event == SelectRows(target_rets, EventMask(target_rets))
        market_event == SelectRows(market_rets, EventMask(market_rets))
    IN
    \* no event row in the target: return None (with an empty target_rets the
    \* logging of index[0] raises IndexError, which the except clause turns
    \* into None as well)
    IF target_event = <<>> THEN BetaNone
    ELSE IF market_event = <<>> THEN BetaNone
    ELSE
    LET target_event_ret == target_event[1].v
        market_event_ret == market_event[1].v
        expected_ret == FMul(beta, market_event_ret)
        abnormal_ret == FSub(target_event_ret, expected_ret)
        residuals == SubAligned(target_hist, Scale(beta, market_hist))
        residual_var == Variance(residuals)
    IN  [status |-> "result",
         ticker |-> target_ticker,
         benchmark |-> market_ticker,
         beta |-> beta,
         event_return |-> target_event_ret,
         expected_return |-> expected_ret,
         abnormal_return |-> abnormal_ret,
         residual_var |-> residual_var,
         fit_index |-> FitIndex(target_hist, market_hist),
         residual_index |-> Index(Dropna(residuals)),
         z_score |-> ZScoreOf(abnormal_ret, residual_var)]

(***************************************************************************)
(* Per-ticker batch loops of run_forensic_analysis (forensics.py)          *)
(***************************************************************************)
contractors == <<"HAL", "SLB">>
shipping_tickers == <<"FRO", "NAT", "STNG">>
Tickers == {"HAL", "SLB", "XLE", "ITA", "SPY", "FRO", "NAT", "STNG"}

\* 1.96 squared, as z-scores are carried by sign and square.
SigThresholdSq == <<2401, 625>>

\* abs(res['z_score']) >= 1.96
IsSignificantInclusive(z) == ~FLt(z.sq, SigThresholdSq)

\* abs(res['z_score']) > 1.96
IsSignificant(z) == FLt(SigThresholdSq, z.sq)

\* What the loop prints for a ticker with a result.
ReportLine(ticker, res) ==
    [ticker |-> ticker,
     event_return |-> res.event_return,
     beta |-> res.beta,
     z_score |-> res.z_score,
     significant |-> IsSignificant(res.z_score)]

\* Lines 315-323: the basket average and the pattern verdict.
PatternVerdict(ita, total, count) ==
    IF count > 0 /\ ita.status = "result"
    THEN IF FLt(<<1, 50>>, ita.event_return) /\ FLt(FDiv(total, R(count)), Zero)
         THEN "confirmed" ELSE "not confirmed"
    ELSE "none"

(***************************************************************************)
(* Intraday loading and alignment (factor_model.py, spread_control.py)     *)
(***************************************************************************)
\* An intraday timestamp is day * MinutesPerDay + minute of the day, in
\* America/New_York wall-clock time; days are numbered as the daily dates.
MinutesPerDay == 24 * 60
HM(h, m) == h * 60 + m
Ts(day, minute) == day * MinutesPerDay + minute
DayOf(ts) == ts \div MinutesPerDay
TimeOfDay(ts) == ts % MinutesPerDay

SessionOpen == HM(9, 30)
SessionClose == HM(16, 0)

\* No de-duplication of the concatenated files.
DedupNone(rows) == rows

\* df[~df.index.duplicated(keep='first')]
DedupFirst(rows) ==
    SelectRows(rows,
        [k \in 1..Len(rows) |-> \A j \in 1..(k - 1) : rows[j].t # rows[k].t])

\* df.sort_index() on unique labels.
SortIndex(rows) == SortSeq(rows, LAMBDA a, b : a.t < b.t)

\* The window without its closing minute.
BetweenTimeOpenEnd(rows, lo, hi) ==
    SelectSeq(rows, LAMBDA r : TimeOfDay(r.t) >= lo /\ TimeOfDay(r.t) < hi)

\* df.between_time(lo, hi), both ends included.
BetweenTime(rows, lo, hi) ==
    SelectSeq(rows, LAMBDA r : TimeOfDay(r.t) >= lo /\ TimeOfDay(r.t) <= hi)

\* Timezones of a parquet index: "naive" (index.tz is None) or a zone.  The
\* data are of December and January: New York is on UTC-5.
Timezones == {"naive", "UTC", "America/New_York"}
NewYorkUtcOffset == 5 * 60

\* tz_localize('America/New_York') of a naive index keeps the wall-clock
\* time; tz_convert('America/New_York') turns the wall-clock time of the
\* index's zone into New York's.
TzNormalize(rows, tz) ==
    [k \in 1..Len(rows) |->
        Row(IF tz = "UTC" THEN rows[k].t - NewYorkUtcOffset ELSE rows[k].t,
            rows[k].v)]

\* load_5m_data on the concatenated rows of the ticker's 5m files, whose
\* index is in timezone tz (an empty concatenation is FileNotFoundError /
\* None, decided by the caller).
load_5m_data(raw, tz) ==
    BetweenTime(TzNormalize(SortIndex(DedupFirst(raw)), tz),
                SessionOpen, SessionClose)

\* xle.index.intersection(spy.index).intersection(oil.index)
CommonIndex3(a, b, c) ==
    Intersection(Intersection(Index(a), Index(b)), Index(c))
\* xle.index.intersection(oil.index)
CommonIndex2(a, b) == Intersection(Index(a), Index(b))

(***************************************************************************)
(* Intraday factor model (factor_model.py)                                 *)
(***************************************************************************)
MinTrainBars == 100
\* "2026-01-01" and "2026-01-02 14:55:00"
TrainCutoff == Ts(EventDate - 1, 0)
LeakStart == Ts(EventDate, HM(14, 55))

\* cumsum of the residuals in place of compounding.
CumulativeAbnormalSummed(residuals) ==
    [k \in 1..Len(residuals) |->
        Row(residuals[k].t, FSum(SubSeq(Values(residuals), 1, k)))]

\* cum_residuals = (1 + residuals).cumprod() - 1
CumulativeAbnormal(residuals) ==
    LET grown == [k \in 1..Len(residuals) |-> FAdd(One, residuals[k].v)]
        prod == Cumprod(grown, One)
    IN  [k \in 1..Len(residuals) |-> Row(residuals[k].t, FSub(prod[k], One))]

\* model.predict(X_test): const + SPY * spy + Oil * oil per bar.
Predict(params, spy_test, oil_test) ==
    [k \in 1..Len(spy_test) |->
        Row(spy_test[k].t,
            FAdd(params.const,
                 FAdd(FMul(params.SPY, spy_test[k].v),
                      FMul(params.Oil, oil_test[k].v))))]

\* Y_test - predicted_xle (same index on both sides).
Residuals(Y_test, predicted) ==
    [k \in 1..Len(Y_test) |-> Row(Y_test[k].t, FSub(Y_test[k].v, predicted[k].v))]

\* The length test with the boundary on the wrong side.
InsufficientTrainingInclusive(Y_train) == Len(Y_train) <= MinTrainBars

\* if len(Y_train) < 100: print("Error: Insufficient training data."); return
InsufficientTraining(Y_train) == Len(Y_train) < MinTrainBars

\* series.iloc[-1] of an empty series read as 0.
IlocLastOrZero(series) ==
    IF series = <<>> THEN <<Zero>> ELSE <<series[Len(series)].v>>

\* series.iloc[-1]: <<value>>, or <<>> when the series is empty and the
\* indexer raises IndexError.
IlocLast(series) ==
    IF series = <<>> THEN <<>> ELSE <<series[Len(series)].v>>

\* The bars up to and including the one stamped at the boundary.
PreLeakInclusive(cum_residuals) ==
    SelectSeq(cum_residuals, LAMBDA r : r.t <= LeakStart)

\* cum_residuals[cum_residuals.index < leak_start]
PreLeak(cum_residuals) ==
    SelectSeq(cum_residuals, LAMBDA r : r.t < LeakStart)

\* cum_residuals[cum_residuals.index >= leak_start]
PostLeak(cum_residuals) ==
    SelectSeq(cum_residuals, LAMBDA r : r.t >= LeakStart)

FmBlank ==
    [status |-> "none", n_train |-> 0, params |-> [const |-> NaN, SPY |-> NaN, Oil |-> NaN],
     resid_var |-> NaN, Y_test |-> <<>>, spy_test |-> <<>>, oil_test |-> <<>>,
     residuals |-> <<>>, cum_residuals |-> <<>>, total_car |-> NaN, n_bars |-> 0,
     z_score_car |-> [sgn |-> 0, sq |-> NaN], car_at_leak |-> NaN,
     surge |-> NaN, conclusion |-> "none"]

\* run_factor_model; fit is the outcome of sm.OLS(Y_train, X_train).fit():
\* the coefficients and the variance of model.resid.  status tells how the
\* function ended: "ok", "insufficient" (line 93), or the exception the
\* except clause at line 147 printed.
run_factor_model(xle_raw, spy_raw, oil_raw, tz, fit) ==
    IF xle_raw = <<>> \/ spy_raw = <<>> \/ oil_raw = <<>>
    THEN [FmBlank EXCEPT !.status = "FileNotFoundError"]
    ELSE
    LET xle0 == load_5m_data(xle_raw, tz)
        spy0 == load_5m_data(spy_raw, tz)
        oil0 == load_5m_data(oil_raw, tz)
        common_idx == CommonIndex3(xle0, spy0, oil0)
        xle_ret == Returns(Loc(xle0, common_idx))
        spy_ret == Returns(Loc(spy0, common_idx))
        oil_ret == Returns(Loc(oil0, common_idx))
        train_mask == [k \in 1..Len(xle_ret) |-> xle_ret[k].t < TrainCutoff]
        test_mask == [k \in 1..Len(xle_ret) |-> DayOf(xle_ret[k].t) = EventDate]
        Y_train == SelectRows(xle_ret, train_mask)
    IN
    IF InsufficientTraining(Y_train)
    THEN [FmBlank EXCEPT !.status = "insufficient", !.n_train = Len(Y_train)]
    ELSE
    LET Y_test == SelectRows(xle_ret, test_mask)
        spy_test == SelectRows(spy_ret, test_mask)
        oil_test == SelectRows(oil_ret, test_mask)
        residuals == Residuals(Y_test, Predict(fit.params, spy_test, oil_test))
        cum_residuals == CumulativeAbnormal(residuals)
        n_bars == Len(residuals)
        fitted == [FmBlank EXCEPT !.n_train = Len(Y_train), !.params = fit.params,
                                  !.resid_var = fit.resid_var, !.Y_test = Y_test,
                                  !.spy_test = spy_test, !.oil_test = oil_test,
                                  !.residuals = residuals,
                                  !.cum_residuals = cum_residuals]
    IN
    \* cum_residuals.iloc[-1] on an empty window
    IF IlocLast(cum_residuals) = <<>> THEN [fitted EXCEPT !.status = "IndexError"]
    ELSE
    LET total_car == IlocLast(cum_residuals)[1]
        car_var == FMul(R(n_bars), fit.resid_var)
        scored == [fitted EXCEPT !.total_car = total_car, !.n_bars = n_bars,
                                 !.z_score_car = RootDiv(total_car, car_var)]
        post_leak == PostLeak(cum_residuals)
        pre_leak == PreLeak(cum_residuals)
    IN
    IF post_leak = <<>> THEN [scored EXCEPT !.status = "ok"]
    \* cum_residuals[index < leak_start].iloc[-1] with no earlier bar
    ELSE IF IlocLast(pre_leak) = <<>> THEN [scored EXCEPT !.status = "IndexError"]
    ELSE
    LET car_at_leak == IlocLast(pre_leak)[1]
        diff == FSub(total_car, car_at_leak)
    IN  [scored EXCEPT !.status = "ok", !.car_at_leak = car_at_leak,
                       !.surge = diff,
                       !.conclusion = IF FLt(<<1, 100>>, diff)
                                      THEN "unexplained" ELSE "explained"]

(***************************************************************************)
(* Spread placebo test (spread_control.py)                                 *)
(***************************************************************************)
MinDayBars == 30
\* event_val = 1.94
EventVal == <<97, 50>>

RECURSIVE FMax(_)
\* Series.max()
FMax(vs) ==
    IF Len(vs) = 1 THEN vs[1]
    ELSE LET m == FMax(Tail(vs)) IN IF FLt(m, Head(vs)) THEN Head(vs) ELSE m

\* (daily_max_spreads <= event_val).mean() * 100: ties counted.
PercentileInclusive(samples, x) ==
    FMul(FDiv(R(Cardinality({k \in 1..Len(samples) : ~FLt(x, samples[k])})),
              R(Len(samples))),
         R(100))

\* The fraction without the factor 100.
PercentileAsFraction(samples, x) ==
    FDiv(R(Cardinality({k \in 1..Len(samples) : FLt(samples[k], x)})),
         R(Len(samples)))

\* (daily_max_spreads < event_val).mean() * 100; the mean of an empty array
\* is NaN.
Percentile(samples, x) ==
    FMul(FDiv(R(Cardinality({k \in 1..Len(samples) : FLt(samples[k], x)})),
              R(Len(samples))),
         R(100))

\* The series less its first value.
RebaseByDifference(close) ==
    [k \in 1..Len(close) |-> Row(close[k].t, FSub(close[k].v, close[1].v))]

\* Normalize to Open: close / close.iloc[0]
Rebase(close) ==
    [k \in 1..Len(close) |-> Row(close[k].t, FDiv(close[k].v, close[1].v))]

\* Lines 80-84: spread = xle_norm - oil_norm of two series on one index, as
\* the sequence of its values.
DaySpread(xle_day, oil_day) ==
    LET xle_norm == Rebase(xle_day)
        oil_norm == Rebase(oil_day)
    IN  [k \in 1..Len(xle_day) |-> FSub(xle_norm[k].v, oil_norm[k].v)]

\* The day's statistic without the test of the number of common bars.
DayMaxSpreadNoMinimum(xle_base, oil_base, d) ==
    LET xle_day0 == SelectSeq(xle_base, LAMBDA r : DayOf(r.t) = d)
        oil_day0 == SelectSeq(oil_base, LAMBDA r : DayOf(r.t) = d)
        common == CommonIndex2(xle_day0, oil_day0)
        xle_day == Loc(xle_day0, common)
        oil_day == Loc(oil_day0, common)
        spread == DaySpread(xle_day, oil_day)
    IN  IF common = <<>> THEN <<>> ELSE <<FMax(spread)>>

\* Lines 65-89 for one date d: the day's maximum normalised spread, or <<>>
\* when the day is skipped.
DayMaxSpread(xle_base, oil_base, d) ==
    LET xle_day0 == SelectSeq(xle_base, LAMBDA r : DayOf(r.t) = d)
        oil_day0 == SelectSeq(oil_base, LAMBDA r : DayOf(r.t) = d)
        common == CommonIndex2(xle_day0, oil_day0)
        xle_day == Loc(xle_day0, common)
        oil_day == Loc(oil_day0, common)
        spread == DaySpread(xle_day, oil_day)
    IN  IF xle_day0 = <<>> \/ oil_day0 = <<>> THEN <<>>
        ELSE IF Len(common) < MinDayBars THEN <<>>
        ELSE <<FMax(spread)>>

RECURSIVE DailyMaxSpreads(_, _, _)
\* The for loop over unique_dates.
DailyMaxSpreads(xle_base, oil_base, dates) ==
    IF dates = <<>> THEN <<>>
    ELSE DayMaxSpread(xle_base, oil_base, Head(dates))
         \o DailyMaxSpreads(xle_base, oil_base, Tail(dates))

PlaceboBlank ==
    [status |-> "none", unique_dates |-> <<>>, daily_max_spreads |-> <<>>,
     percentile |-> NaN]

run_spread_placebo(xraw, oraw, tz) ==
    IF xraw = <<>> \/ oraw = <<>>
    THEN [PlaceboBlank EXCEPT !.status = "Missing data"]
    ELSE
    LET xle0 == load_5m_data(xraw, tz)
        oil0 == load_5m_data(oraw, tz)
        common_idx == CommonIndex2(xle0, oil0)
        xle == Loc(xle0, common_idx)
        oil == Loc(oil0, common_idx)
        baseline_mask == [k \in 1..Len(xle) |-> xle[k].t < TrainCutoff]
        xle_base == SelectRows(xle, baseline_mask)
        oil_base == SelectRows(oil, baseline_mask)
        unique_dates == SortSet({DayOf(xle_base[k].t) : k \in 1..Len(xle_base)})
        maxima == DailyMaxSpreads(xle_base, oil_base, unique_dates)
        daily_max_spreads == [k \in 1..Len(maxima) |-> FMul(maxima[k], R(100))]
    IN  [status |-> "ok",
         unique_dates |-> unique_dates,
         daily_max_spreads |-> daily_max_spreads,
         percentile |-> Percentile(daily_max_spreads, EventVal)]

(***************************************************************************)
(* Data acquisition (data_loader.py)                                       *)
(***************************************************************************)
\* Strings the code takes apart are sequences of their pieces.
\* ticker.replace("=", "")
SafeTicker(ticker) == SelectSeq(ticker, LAMBDA ch : ch # "=")

\* f"{safe_ticker}_{start_date}_{end_date}_{interval}.parquet"
Filename(ticker, start_date, end_date, interval) ==
    SafeTicker(ticker) \o <<"_">> \o start_date \o <<"_">> \o end_date
        \o <<"_">> \o interval \o <<".parquet">>

\* A file of the cache directory: absent, unreadable, or a parquet of rows.
Absent == [state |-> "absent", df |-> <<>>]
Corrupt == [state |-> "corrupt", df |-> <<>>]
Parquet(df) == [state |-> "parquet", df |-> df]

\* What download_ticker_data returns: None or a DataFrame.
DlNone == [status |-> "None", df |-> <<>>]
DlFrame(df) == [status |-> "DataFrame", df |-> df]

\* df.to_parquet(filepath) ahead of the df.empty test.
SaveThenCheck(files_on_disk, filepath, df) ==
    [res |-> IF df = <<>> THEN DlNone ELSE DlFrame(df),
     cache |-> [files_on_disk EXCEPT ![filepath] = Parquet(df)]]

\* Lines 73-79: an empty download returns None before anything is written;
\* otherwise the frame is written to filepath and returned.
SaveIfRows(files_on_disk, filepath, df) ==
    IF df = <<>> THEN [res |-> DlNone, cache |-> files_on_disk]
    ELSE [res |-> DlFrame(df),
          cache |-> [files_on_disk EXCEPT ![filepath] = Parquet(df)]]

\* download_ticker_data; response is what yf.download does when called:
\* [kind |-> "frame", df |-> rows] or [kind |-> "error", df |-> <<>>].
\* provider tells whether the provider was asked and what it answered.
download_ticker_data(files_on_disk, ticker, start_date, end_date, interval, force_refresh, response) ==
    LET filepath == Filename(ticker, start_date, end_date, interval)
        cached == files_on_disk[filepath]
    IN  IF cached.state = "parquet" /\ ~force_refresh
        THEN [res |-> DlFrame(cached.df), cache |-> files_on_disk,
              provider |-> "not called"]
        \* no file, force_refresh, or read_parquet failed: download
        ELSE IF response.kind = "error"
        THEN [res |-> DlNone, cache |-> files_on_disk, provider |-> "error"]
        ELSE LET saved == SaveIfRows(files_on_disk, filepath, response.df)
             IN  [res |-> saved.res, cache |-> saved.cache,
                  provider |-> IF response.df = <<>> THEN "empty" ELSE "rows"]

(***************************************************************************)
(* Intraday leak spread (forensics.py)                                     *)
(***************************************************************************)
\* A DataFrame object: the timezone of its index and its rows, stamped on
\* the wall clock of that timezone.
Frame(tz, rows) == [tz |-> tz, rows |-> rows]

\* The objects of a call of calculate_leak_spread, by the name bound to
\* each: the caller's two frames and the function's two day frames.
Unbound == Frame("naive", <<>>)

\* df.loc[date_str] and df[df.index.date == target_date]: the rows of the
\* date on the index's own clock.
DayRows(rows, date) == SelectSeq(rows, LAMBDA r : DayOf(r.t) = date)

\* day = df.loc[date_str].copy(): a new object is bound to the name day.
LocCopy(heap, day, df, date) ==
    [heap EXCEPT ![day] = Frame(heap[df].tz, DayRows(heap[df].rows, date))]

\* The index assignment made on the frame the day was sliced from as well.
AssignNewYorkIndexThrough(heap, ref) ==
    LET src == IF ref = "xle_day" THEN "xle_df" ELSE "uso_df"
    IN  [heap EXCEPT
            ![ref] = Frame("America/New_York", TzNormalize(heap[ref].rows, heap[ref].tz)),
            ![src] = Frame("America/New_York", TzNormalize(heap[src].rows, heap[src].tz))]

\* ref.index = ref.index.tz_localize('America/New_York') when the index is
\* naive, else ref.index.tz_convert('America/New_York'): the index of the
\* object bound to ref is replaced.
AssignNewYorkIndex(heap, ref) ==
    [heap EXCEPT
        ![ref] = Frame("America/New_York", TzNormalize(heap[ref].rows, heap[ref].tz))]

\* ref = ref.between_time('09:30', '16:00'): the name is bound to a new
\* object.
RebindBetweenTime(heap, ref) ==
    [heap EXCEPT
        ![ref] = Frame(heap[ref].tz, BetweenTime(heap[ref].rows, SessionOpen, SessionClose))]

\* series.reindex(idx) on unique labels: NaN where the series has no row.
Reindex(rows, idx) ==
    [k \in 1..Len(idx) |->
        Row(idx[k], IF idx[k] \in Labels(rows) THEN At(rows, idx[k]) ELSE NaN)]

\* series.ffill(): a NaN takes the last value before it that is not NaN; one
\* with no such value before it stays NaN.
Ffill(rows) ==
    [k \in 1..Len(rows) |->
        LET seen == {j \in 1..k : ~IsNaN(rows[j].v)}
        IN  Row(rows[k].t,
                IF seen = {} THEN NaN
                ELSE rows[CHOOSE j \in seen : \A i \in seen : i <= j].v)]

\* xle_day.index.union(uso_day.index).sort_values()
UnionIndex(a, b) == SortSet(Labels(a) \cup Labels(b))

LeakNone == [status |-> "None", spread |-> <<>>, xle_norm |-> <<>>, uso_norm |-> <<>>]

\* calculate_leak_spread(xle_df, uso_df, date_str) on the objects of heap;
\* the result and the objects after the call.  A date without rows ends in
\* None on either path: .loc raises KeyError and the fallback filter raises
\* its own, or .loc gives an empty frame and the test of line 100 returns.
calculate_leak_spread(heap, date_str) ==
    LET sliced == LocCopy(LocCopy(heap, "xle_day", "xle_df", date_str),
                          "uso_day", "uso_df", date_str)
    IN
    IF sliced.xle_day.rows = <<>> \/ sliced.uso_day.rows = <<>>
    THEN [res |-> LeakNone, heap |-> sliced]
    ELSE
    LET zoned == AssignNewYorkIndex(AssignNewYorkIndex(sliced, "xle_day"), "uso_day")
        rth == RebindBetweenTime(RebindBetweenTime(zoned, "xle_day"), "uso_day")
    IN
    IF rth.xle_day.rows = <<>> \/ rth.uso_day.rows = <<>>
    THEN [res |-> LeakNone, heap |-> rth]
    ELSE
    LET common_index == UnionIndex(rth.xle_day.rows, rth.uso_day.rows)
        xle_close == Ffill(Reindex(rth.xle_day.rows, common_index))
        uso_close == Ffill(Reindex(rth.uso_day.rows, common_index))
        xle_norm == Rebase(xle_close)
        uso_norm == Rebase(uso_close)
        spread == [k \in 1..Len(common_index) |->
                     Row(common_index[k], FSub(xle_norm[k].v, uso_norm[k].v))]
    IN  [res |-> [status |-> "result", spread |-> spread,
                  xle_norm |-> xle_norm, uso_norm |-> uso_norm],
         heap |-> [rth EXCEPT !.xle_day = Frame("America/New_York", xle_close),
                              !.uso_day = Frame("America/New_York", uso_close)]]

(***************************************************************************)
(* Event-day return of the historical control (historical_control.py)      *)
(***************************************************************************)
\* index.searchsorted(x, side='right') on a sorted index.
SearchsortedRight(index, x) ==
    Cardinality({k \in 1..Len(index) : index[k] <= x})

\* index.searchsorted(x) on a sorted index: the number of labels before x.
Searchsorted(index, x) ==
    Cardinality({k \in 1..Len(index) : index[k] < x})

GrNone == [status |-> "None", value |-> NaN]
GrValue(v) == [status |-> "value", value |-> v]

\* get_return(ticker, date_str); response is what yf.download does for the
\* window around the date: [kind |-> "frame", df |-> rows] or
\* [kind |-> "error", df |-> <<>>].  Every exception of the body is caught
\* and turned into None, the ZeroDivisionError of Python's float division
\* included.
get_return(response, target_date) ==
    IF response.kind = "error" THEN GrNone
    ELSE
    LET df == response.df
        idx_loc == Searchsorted(Index(df), target_date)
    IN  IF df = <<>> THEN GrNone
        ELSE IF idx_loc >= Len(df) THEN GrNone
        ELSE IF idx_loc = 0 THEN GrNone
        ELSE LET p_event == df[idx_loc + 1].v
                 p_prev == df[idx_loc].v
             IN  IF p_prev = Zero THEN GrNone
                 ELSE GrValue(FSub(FDiv(p_event, p_prev), One))

(***************************************************************************)
(* Input domains                                                           *)
(***************************************************************************)
(***************************************************************************)
Closes == {R(c) : c \in 1..MaxClose}

\* Price series of n bars stamped 1..n with the given closes.
MkSeries(cs) == [k \in 1..Len(cs) |-> Row(k, cs[k])]

PriceInputs ==
    UNION {{MkSeries(cs) : cs \in [1..n -> Closes]} : n \in 0..MaxBars}

\* Closing price patterns of the generated daily files.
PatClose(pat, d) ==
    CASE pat = 1 -> IF d % 2 = 1 THEN 1 ELSE 2
      [] pat = 2 -> IF d % 3 = 0 THEN 1 ELSE 2
      [] OTHER -> 1

\* A daily file with one bar per day of first..last except the days of skip;
\* from the event day on the close is multiplied by bump.
DailyRows(first, last, skip, pat, bump) ==
    LET days == SortSet((first..last) \ skip)
    IN  [k \in 1..Len(days) |->
            Row(days[k],
                R(PatClose(pat, days[k]) * (IF days[k] >= EventDate THEN bump ELSE 1)))]


DailyFiles ==
    {NoFile, File(<<>>), File(DailyRows(EventDate, EventDate, {}, 1, 1)),
     \* a file that starts one trading day before the others
     File(DailyRows(0, EventDate, {}, 1, 1))}
    \cup {File(DailyRows(first, last, skip, pat, bump)) :
            first \in 1..(1 + MaxStartSkip),
            last \in (EventDate - 1)..(EventDate + MaxAfter),
            skip \in {{}, {GapDate}, {EventDate}},
            pat \in {1, 2},
            bump \in {1, 3}}

\* Files of the batch runs: a benchmark is complete or ends the day before
\* the event; a target is absent, complete, ends the day before the event,
\* or has a hole on the event day.
BenchmarkFiles ==
    {File(DailyRows(1, EventDate + MaxAfter, {}, 1, 1)),
     File(DailyRows(1, EventDate - 1, {}, 1, 1))}

TargetFiles ==
    {NoFile,
     File(DailyRows(1, EventDate + MaxAfter, {}, 2, 3)),
     File(DailyRows(1, EventDate - 1, {}, 2, 1)),
     File(DailyRows(1, EventDate + MaxAfter + 1, {EventDate}, 2, 1))}

\* Intraday files of the factor-model runs.  The baseline holds one
\* pre-market bar, the full session of day EventDate - 3 and the first bars
\* of day EventDate - 2, so that the aligned training returns number
\* MinTrainBars + extra; closes alternate 1, 2.
SessionBars == (SessionClose - SessionOpen) \div 5 + 1
BarTime(day, k) == Ts(day, SessionOpen + 5 * (k - 1))
AltClose(k) == R(IF k % 2 = 1 THEN 1 ELSE 2)

BaselineRows(extra) ==
    <<Row(Ts(EventDate - 3, HM(9, 25)), R(3))>>
    \o [k \in 1..SessionBars |-> Row(BarTime(EventDate - 3, k), AltClose(k))]
    \o [k \in 1..(MinTrainBars + 1 - SessionBars + extra) |->
            Row(BarTime(EventDate - 2, k), AltClose(k))]

EvTimes == <<HM(14, 50), HM(14, 55), HM(15, 0)>>
EvClose(pat, i) ==
    CASE pat = 1 -> <<2, 2, 3>>[i]
      [] pat = 2 -> <<1, 2, 4>>[i]
      [] pat = 3 -> <<2, 1, 1>>[i]
      [] OTHER -> <<2, 2, 2>>[i]

\* The event-day rows at the bars of EvTimes whose position is in evset.
EventRows(evset, pat) ==
    LET pos == SortSet(evset)
    IN  [k \in 1..Len(pos) |-> Row(Ts(EventDate, EvTimes[pos[k]]), R(EvClose(pat, pos[k])))]

XleRaws ==
    {BaselineRows(extra) \o EventRows(evset, pat) :
        extra \in (-1)..TrainSlack, evset \in SUBSET (1..3), pat \in {1, 2}}
\* The benchmark's files are globbed event file first.
SpyRaws ==
    {EventRows(evset, pat) \o BaselineRows(1) :
        evset \in {{1, 2, 3}, {1, 3}}, pat \in {3, 1}}
OilRaws ==
    {BaselineRows(1) \o EventRows({1, 2, 3}, pat) : pat \in {4, 3}}

\* Outcomes of the OLS fit: coefficients and variance of the residuals.
FitChoices ==
    {[params |-> [const |-> Zero, SPY |-> Zero, Oil |-> Zero], resid_var |-> <<1, 4>>],
     [params |-> [const |-> Zero, SPY |-> One, Oil |-> Zero], resid_var |-> Zero],
     [params |-> [const |-> <<1, 10>>, SPY |-> <<1, 2>>, Oil |-> <<-1, 2>>],
      resid_var |-> <<1, 100>>]}

\* Raw files of the alignment runs: up to MaxRawRows rows in any order, with
\* repeated timestamps and a bar after the session; the close of a row is
\* its position in the file.
AlignTimes ==
    {Ts(EventDate - 2, HM(9, 30)), Ts(EventDate - 2, HM(9, 35)),
     Ts(EventDate - 2, HM(16, 5))}
SmallRaws ==
    UNION {{[k \in 1..n |-> Row(ts[k], R(k))] : ts \in [1..n -> AlignTimes]} :
             n \in 0..MaxRawRows}

\* Intraday files of the placebo runs: one session per baseline day, of a
\* kind that fixes the day's maximum spread: "flat" 0, "tie" 1.94 (the event
\* value), "high" 2, "short" a session of MinDayBars - 1 bars; then the
\* event day.  kinds[i] is the kind of day EventDate - 1 - i.
DayKinds == {"flat", "tie", "high", "short"}
DayBars(kind) == IF kind = "short" THEN MinDayBars - 1 ELSE MinDayBars
XleDayClose(kind, k) ==
    IF k # 2 THEN 5000
    ELSE CASE kind = "tie" -> 5097 [] kind = "high" -> 5100 [] OTHER -> 5000

RECURSIVE PlaceboRows(_, _, _)
\* who is "xle" or "oil"; days are laid out oldest first.
PlaceboRows(who, kinds, i) ==
    IF i = 0 THEN <<>>
    ELSE [k \in 1..DayBars(kinds[i]) |->
             Row(BarTime(EventDate - 1 - i, k),
                 R(IF who = "xle" THEN XleDayClose(kinds[i], k) ELSE 5000))]
         \o PlaceboRows(who, kinds, i - 1)

PlaceboEventRows(who) ==
    [k \in 1..2 |-> Row(BarTime(EventDate, k), R(IF who = "xle" THEN 5000 + 200 * k ELSE 5000))]

PlaceboKinds == UNION {[1..n -> DayKinds] : n \in 0..MaxDays}

\* z-scores of the results handed to the contractor loop's report: the
\* hundredths -MaxZHundredths..MaxZHundredths, NaN and the infinities.
ZValues ==
    {[sgn |-> Sign(R(h)), sq |-> FDiv(R(h * h), R(100 * 100))] :
        h \in (-MaxZHundredths)..MaxZHundredths}
    \cup {[sgn |-> 0, sq |-> NaN], [sgn |-> 1, sq |-> PosInf], [sgn |-> -1, sq |-> PosInf]}

\* A result of run_beta_analysis with the given z-score.
ResultWithZ(z) ==
    [status |-> "result", ticker |-> "HAL", benchmark |-> "XLE",
     beta |-> One, event_return |-> <<1, 50>>, expected_return |-> <<1, 100>>,
     abnormal_return |-> <<1, 100>>, residual_var |-> NaN,
     fit_index |-> <<>>, residual_index |-> <<>>, z_score |-> z]

\* Raw 5m files of the loading runs: up to MaxLoadRows rows in any order,
\* stamped around the ends of the session as read in New York and in UTC,
\* on two days; the close of a row is its position in the file.
LoadTimes ==
    {Ts(EventDate - 2, m) :
        m \in {HM(9, 25), HM(9, 30), HM(16, 0), HM(16, 5), HM(14, 30), HM(21, 0)}}
    \cup {Ts(EventDate - 3, HM(21, 5))}
LoadRaws ==
    UNION {{[k \in 1..n |-> Row(ts[k], R(k))] : ts \in [1..n -> LoadTimes]} :
             n \in 0..MaxLoadRows}

\* Calls of download_ticker_data: the tickers, one date range, the
\* intervals; the provider answers with an error or a frame of up to
\* MaxProviderRows rows.
DlTickers == {<<"C", "L", "=", "F">>, <<"C", "L", "F">>, <<"X", "L", "E">>}
DlStart == <<"2026-01-02">>
DlEnd == <<"2026-01-06">>
DlIntervals == {<<"5m">>, <<"1d">>}
DlFilenames ==
    {Filename(t, DlStart, DlEnd, i) : t \in DlTickers, i \in DlIntervals}
\* The provider quotes every instrument at a level of its own.
ProviderClose(ticker) ==
    CASE ticker = <<"C", "L", "=", "F">> -> R(1)
      [] ticker = <<"C", "L", "F">> -> R(2)
      [] OTHER -> R(3)

\* What yf.download(ticker, ...) can do: fail, or answer with rows of ticker.
ProviderResponses(ticker) ==
    {[kind |-> "error", df |-> <<>>]}
    \cup {[kind |-> "frame", df |-> [k \in 1..n |-> Row(k, ProviderClose(ticker))]] :
             n \in 0..MaxProviderRows}

\* Frames of the leak-spread runs.  The bars of a file around the event
\* date, on New York's clock: the last bar of the previous session, a
\* pre-market bar and up to MaxLeakBars session bars from the opening on.
LeakSlots ==
    {Ts(EventDate - 1, HM(15, 55)), Ts(EventDate, HM(9, 25))}
    \cup {Ts(EventDate, SessionOpen + 5 * (k - 1)) : k \in 1..MaxLeakBars}

\* The rows on the clock of timezone tz.
OnClock(rows, tz) ==
    [k \in 1..Len(rows) |->
        Row(IF tz = "UTC" THEN rows[k].t + NewYorkUtcOffset ELSE rows[k].t,
            rows[k].v)]

LeakClose(pat, k) == IF pat = 1 THEN R(k) ELSE R(1 + (k % 2))

\* One file of a ticker: unique timestamps in increasing order.
LeakFrames(pat) ==
    {Frame(tz, OnClock([k \in 1..Len(ts) |-> Row(ts[k], LeakClose(pat, k))], tz)) :
        tz \in Timezones, ts \in {SortSet(S) : S \in SUBSET LeakSlots}}

\* Session bars of the correlated runs: n bars from the opening on with the
\* closes cs, and the series scale * cs + offset on the same bars.
CorrBars(cs) ==
    [k \in 1..Len(cs) |-> Row(Ts(EventDate, SessionOpen + 5 * (k - 1)), cs[k])]
CorrCloses == UNION {[1..n -> Closes] : n \in 1..MaxLeakBars}
Affine(cs, scale, offset) ==
    [k \in 1..Len(cs) |-> FAdd(FMul(R(scale), cs[k]), R(offset))]
\* A third series on the same bars, the other factor of the model.
OtherFactor(n) == CorrBars([k \in 1..n |-> R(1 + (k % 2))])

\* Price windows of get_return: daily bars on some of the days around the
\* date, in date order, or a failure of the provider.
WindowDays == (EventDate - WindowReach)..(EventDate + WindowReach)
WindowClose(pat, k) ==
    CASE pat = 1 -> R(k)
      [] pat = 2 -> R(1 + (k % 2))
      [] OTHER -> R(2)
WindowResponses ==
    {[kind |-> "error", df |-> <<>>]}
    \cup {[kind |-> "frame",
           df |-> [k \in 1..Len(ds) |-> Row(ds[k], WindowClose(pat, k))]] :
             pat \in 1..3, ds \in {SortSet(S) : S \in SUBSET WindowDays}}

(***************************************************************************)
(* State                                                                   *)
(***************************************************************************)
VARIABLES
    pc,             \* which step of the modelled run has been taken
    price_series,   \* a 'Close' column, input of pct_change().dropna()
    return_series,  \* the derived return series
    target_df,      \* daily parquet of the target ticker (or absent)
    market_df,      \* daily parquet of the benchmark ticker (or absent)
    beta_res,       \* outcome of run_beta_analysis
    files,          \* daily parquet on disk, per ticker
    loop_i,         \* position of the running for loop in its ticker list
    analysed,       \* tickers whose run_beta_analysis call has returned
    report,         \* per-ticker lines printed by the contractor loop
    ita_res,        \* result of the ITA call
    shipping_results, \* results appended by the shipping loop
    total_shipping_return,
    valid_shipping_count,
    pattern,        \* verdict printed after the shipping loop
    xle_raw,        \* concatenated rows of the 5m files of XLE
    spy_raw,        \* ... of SPY
    oil_raw,        \* ... of CL=F
    index_tz,       \* timezone of the index of the 5m files
    fm,             \* outcome of run_factor_model
    aligned,        \* the series after loading and alignment
    placebo,        \* outcome of run_spread_placebo
    cache,          \* raw_parquet directory: content per file name
    dl_call,        \* the last call of download_ticker_data
    dl_res,         \* what that call returned
    frames,         \* DataFrame objects of a calculate_leak_spread call, by name
    leak_res,       \* what calculate_leak_spread returned
    corr,           \* the correlated runs: relation, fit, day spread and CAR
    gr_df,          \* what the provider answers to get_return's download
    gr_date,        \* the event date passed to get_return
    gr_res          \* what get_return returned

retVars == <<price_series, return_series>>
betaVars == <<target_df, market_df, beta_res>>
forVars == <<files, loop_i, analysed, report, ita_res, shipping_results,
             total_shipping_return, valid_shipping_count, pattern>>
rawVars == <<xle_raw, spy_raw, oil_raw, index_tz>>
fmVars == <<rawVars, fm, aligned, placebo>>
dlVars == <<cache, dl_call, dl_res>>
leakVars == <<frames, leak_res, corr>>
grVars == <<gr_df, gr_date, gr_res>>
vars == <<pc, retVars, betaVars, forVars, fmVars, dlVars, leakVars, grVars>>

RetIdle == price_series = <<>> /\ return_series = <<>>

BetaIdle == target_df = NoFile /\ market_df = NoFile /\ beta_res = BetaNone

ForInit ==
    /\ loop_i = 1
    /\ analysed = <<>>
    /\ report = <<>>
    /\ ita_res = BetaNone
    /\ shipping_results = <<>>
    /\ total_shipping_return = Zero
    /\ valid_shipping_count = 0
    /\ pattern = "none"

ForIdle == files = [t \in Tickers |-> NoFile] /\ ForInit

AlignBlank == [status |-> "none", loaded |-> <<>>, three |-> <<>>, two |-> <<>>]

FmIdle ==
    /\ xle_raw = <<>> /\ spy_raw = <<>> /\ oil_raw = <<>>
    /\ index_tz = "America/New_York"
    /\ fm = FmBlank
    /\ aligned = AlignBlank
    /\ placebo = PlaceboBlank


DlCallNone ==
    [ticker |-> <<>>, interval |-> <<>>, force_refresh |-> FALSE,
     provider |-> "none"]

DlIdle ==
    /\ cache = [f \in DlFilenames |-> Absent]
    /\ dl_call = DlCallNone
    /\ dl_res = DlNone

LeakBlank == [LeakNone EXCEPT !.status = "none"]

NoFrames ==
    [xle_df |-> Unbound, uso_df |-> Unbound, xle_day |-> Unbound, uso_day |-> Unbound]

CorrBlank ==
    [scale |-> 1, offset |-> 0, fit |-> [const |-> NaN, SPY |-> NaN, Oil |-> NaN],
     day_spread |-> <<>>, car |-> <<>>]

LeakIdle == frames = NoFrames /\ leak_res = LeakBlank /\ corr = CorrBlank

GrBlank == [GrNone EXCEPT !.status = "none"]

GrIdle ==
    /\ gr_df = [kind |-> "error", df |-> <<>>]
    /\ gr_date = EventDate
    /\ gr_res = GrBlank

(***************************************************************************)
(* Return computation: close.pct_change().dropna()                         *)
(***************************************************************************)
InitReturns ==
    /\ pc = "start"
    /\ price_series \in PriceInputs
    /\ return_series = <<>>
    /\ BetaIdle
    /\ ForIdle
    /\ FmIdle
    /\ DlIdle /\ LeakIdle /\ GrIdle

ComputeReturns ==
    /\ pc = "start"
    /\ return_series' = Returns(price_series)
    /\ pc' = "done"
    /\ UNCHANGED <<price_series, betaVars, forVars, fmVars, dlVars, leakVars, grVars>>

NextReturns == ComputeReturns

SpecReturns == InitReturns /\ [][NextReturns]_vars

(***************************************************************************)
(* One call of run_beta_analysis                                           *)
(***************************************************************************)
InitBeta ==
    /\ pc = "start"
    /\ target_df \in DailyFiles
    /\ market_df \in DailyFiles
    /\ beta_res = BetaNone
    /\ RetIdle
    /\ ForIdle
    /\ FmIdle
    /\ DlIdle /\ LeakIdle /\ GrIdle

RunBeta ==
    /\ pc = "start"
    /\ beta_res' = run_beta_analysis("TGT", "MKT", target_df, market_df)
    /\ pc' = "done"
    /\ UNCHANGED <<target_df, market_df, retVars, forVars, fmVars, dlVars, leakVars, grVars>>

NextBeta == RunBeta

SpecBeta == InitBeta /\ [][NextBeta]_vars

(***************************************************************************)
(* run_forensic_analysis from the contractor loop on (lines 272-323)       *)
(***************************************************************************)
InitForensic ==
    /\ pc = "contractors"
    /\ files \in [Tickers -> TargetFiles \cup BenchmarkFiles]
    /\ \A t \in {"XLE", "SPY"} : files[t] \in BenchmarkFiles
    /\ \A t \in Tickers \ {"XLE", "SPY"} : files[t] \in TargetFiles
    /\ ForInit
    /\ RetIdle
    /\ BetaIdle
    /\ FmIdle
    /\ DlIdle /\ LeakIdle /\ GrIdle

\* An exception leaving run_beta_analysis is caught nowhere in
\* run_forensic_analysis: the function ends there.
Propagate ==
    /\ pc' = "raised"
    /\ UNCHANGED <<files, loop_i, analysed, report, ita_res, shipping_results,
                   total_shipping_return, valid_shipping_count, pattern>>

\* One iteration of `for ticker in contractors` (lines 273-286).
ContractorStep ==
    /\ pc = "contractors"
    /\ \E ticker \in {contractors[loop_i]} :
       \E res \in {run_beta_analysis(ticker, "XLE", files[ticker], files["XLE"])} :
           IF res.status \notin {"None", "result"} THEN Propagate
           ELSE
           /\ analysed' = Append(analysed, ticker)
           /\ report' = IF res.status = "result"
                        THEN Append(report, ReportLine(ticker, res))
                        ELSE report
           /\ IF loop_i < Len(contractors)
              THEN loop_i' = loop_i + 1 /\ pc' = "contractors"
              ELSE loop_i' = 1 /\ pc' = "ita"
           /\ UNCHANGED <<files, ita_res, shipping_results,
                          total_shipping_return, valid_shipping_count, pattern>>

\* ita_res = models.run_beta_analysis("ITA", "SPY") (line 293).
ItaStep ==
    /\ pc = "ita"
    /\ \E res \in {run_beta_analysis("ITA", "SPY", files["ITA"], files["SPY"])} :
           IF res.status \notin {"None", "result"} THEN Propagate
           ELSE
           /\ ita_res' = res
           /\ analysed' = Append(analysed, "ITA")
           /\ pc' = "shipping"
           /\ UNCHANGED <<files, loop_i, report, shipping_results,
                          total_shipping_return, valid_shipping_count, pattern>>

\* One iteration of `for ticker in shipping_tickers` (lines 307-313).
ShippingStep ==
    /\ pc = "shipping"
    /\ \E ticker \in {shipping_tickers[loop_i]} :
       \E res \in {run_beta_analysis(ticker, "SPY", files[ticker], files["SPY"])} :
           IF res.status \notin {"None", "result"} THEN Propagate
           ELSE
           /\ analysed' = Append(analysed, ticker)
           /\ IF res.status = "result"
              THEN /\ total_shipping_return' =
                        FAdd(total_shipping_return, res.event_return)
                   /\ valid_shipping_count' = valid_shipping_count + 1
                   /\ shipping_results' = Append(shipping_results, res)
              ELSE UNCHANGED <<total_shipping_return, valid_shipping_count,
                               shipping_results>>
           /\ IF loop_i < Len(shipping_tickers)
              THEN loop_i' = loop_i + 1 /\ pc' = "shipping"
              ELSE loop_i' = 1 /\ pc' = "summary"
           /\ UNCHANGED <<files, report, ita_res, pattern>>

\* Lines 315-323.
Summary ==
    /\ pc = "summary"
    /\ pattern' = PatternVerdict(ita_res, total_shipping_return, valid_shipping_count)
    /\ pc' = "done"
    /\ UNCHANGED <<files, loop_i, analysed, report, ita_res, shipping_results,
                   total_shipping_return, valid_shipping_count>>

NextForensic ==
    \/ ContractorStep /\ UNCHANGED <<retVars, betaVars, fmVars, dlVars, leakVars, grVars>>
    \/ ItaStep /\ UNCHANGED <<retVars, betaVars, fmVars, dlVars, leakVars, grVars>>
    \/ ShippingStep /\ UNCHANGED <<retVars, betaVars, fmVars, dlVars, leakVars, grVars>>
    \/ Summary /\ UNCHANGED <<retVars, betaVars, fmVars, dlVars, leakVars, grVars>>

SpecForensic == InitForensic /\ [][NextForensic]_vars

(***************************************************************************)
(* Loading and aligning the intraday series                                *)
(***************************************************************************)
InitAlign ==
    /\ pc = "start"
    /\ xle_raw \in SmallRaws
    /\ spy_raw \in SmallRaws
    /\ oil_raw \in SmallRaws
    /\ index_tz = "America/New_York"
    /\ fm = FmBlank
    /\ aligned = AlignBlank
    /\ placebo = PlaceboBlank
    /\ RetIdle /\ BetaIdle /\ ForIdle /\ DlIdle /\ LeakIdle /\ GrIdle

\* Lines 54-62 of run_factor_model (three series) and lines 38-48 of
\* run_spread_placebo (XLE and CL=F).
AlignStep ==
    /\ pc = "start"
    /\ pc' = "done"
    /\ aligned' =
          IF xle_raw = <<>> \/ spy_raw = <<>> \/ oil_raw = <<>>
          THEN [AlignBlank EXCEPT !.status = "no data"]
          ELSE LET xle == load_5m_data(xle_raw, index_tz)
                   spy == load_5m_data(spy_raw, index_tz)
                   oil == load_5m_data(oil_raw, index_tz)
                   c3 == CommonIndex3(xle, spy, oil)
                   c2 == CommonIndex2(xle, oil)
               IN  [status |-> "aligned",
                    loaded |-> <<xle, spy, oil>>,
                    three |-> <<Loc(xle, c3), Loc(spy, c3), Loc(oil, c3)>>,
                    two |-> <<Loc(xle, c2), Loc(oil, c2)>>]
    /\ UNCHANGED <<rawVars, fm, placebo, retVars, betaVars, forVars, dlVars, leakVars, grVars>>

NextAlign == AlignStep

SpecAlign == InitAlign /\ [][NextAlign]_vars

(***************************************************************************)
(* One run of run_factor_model                                             *)
(***************************************************************************)
InitFactor ==
    /\ pc = "start"
    /\ xle_raw \in XleRaws \cup {<<>>}
    /\ spy_raw \in SpyRaws
    /\ oil_raw \in OilRaws
    /\ index_tz = "America/New_York"
    /\ fm = FmBlank
    /\ aligned = AlignBlank
    /\ placebo = PlaceboBlank
    /\ RetIdle /\ BetaIdle /\ ForIdle /\ DlIdle /\ LeakIdle /\ GrIdle

RunFactorModel ==
    /\ pc = "start"
    /\ pc' = "done"
    /\ \E fit \in FitChoices :
          fm' = run_factor_model(xle_raw, spy_raw, oil_raw, index_tz, fit)
    /\ UNCHANGED <<rawVars, aligned, placebo, retVars, betaVars, forVars, dlVars, leakVars, grVars>>

NextFactor == RunFactorModel

SpecFactor == InitFactor /\ [][NextFactor]_vars

(***************************************************************************)
(* One run of run_spread_placebo                                           *)
(***************************************************************************)
InitPlacebo ==
    /\ pc = "start"
    /\ \E kinds \in PlaceboKinds :
          /\ xle_raw = PlaceboRows("xle", kinds, Len(kinds)) \o PlaceboEventRows("xle")
          /\ oil_raw = PlaceboRows("oil", kinds, Len(kinds)) \o PlaceboEventRows("oil")
    /\ spy_raw = <<>>
    /\ index_tz = "America/New_York"
    /\ fm = FmBlank
    /\ aligned = AlignBlank
    /\ placebo = PlaceboBlank
    /\ RetIdle /\ BetaIdle /\ ForIdle /\ DlIdle /\ LeakIdle /\ GrIdle

RunSpreadPlacebo ==
    /\ pc = "start"
    /\ pc' = "done"
    /\ placebo' = run_spread_placebo(xle_raw, oil_raw, index_tz)
    /\ UNCHANGED <<rawVars, fm, aligned, retVars, betaVars, forVars, dlVars, leakVars, grVars>>

NextPlacebo == RunSpreadPlacebo

SpecPlacebo == InitPlacebo /\ [][NextPlacebo]_vars

(***************************************************************************)
(* The significance verdict of the contractor loop on one result           *)
(***************************************************************************)
InitSignificance ==
    /\ pc = "start"
    /\ beta_res \in {ResultWithZ(z) : z \in ZValues}
    /\ target_df = NoFile /\ market_df = NoFile
    /\ RetIdle /\ ForIdle
    /\ FmIdle
    /\ DlIdle /\ LeakIdle /\ GrIdle

\* Lines 275-286 for a ticker whose analysis returned beta_res.
JudgeSignificance ==
    /\ pc = "start"
    /\ pc' = "done"
    /\ report' = Append(report, ReportLine(beta_res.ticker, beta_res))
    /\ UNCHANGED <<files, loop_i, analysed, ita_res, shipping_results,
                   total_shipping_return, valid_shipping_count, pattern>>
    /\ UNCHANGED <<retVars, betaVars, fmVars, dlVars, leakVars, grVars>>

NextSignificance == JudgeSignificance

SpecSignificance == InitSignificance /\ [][NextSignificance]_vars

(***************************************************************************)
(* One call of load_5m_data                                                *)
(***************************************************************************)
InitLoad ==
    /\ pc = "start"
    /\ xle_raw \in LoadRaws
    /\ index_tz \in Timezones
    /\ spy_raw = <<>> /\ oil_raw = <<>>
    /\ fm = FmBlank
    /\ aligned = AlignBlank
    /\ placebo = PlaceboBlank
    /\ RetIdle /\ BetaIdle /\ ForIdle /\ DlIdle /\ LeakIdle /\ GrIdle

\* load_5m_data("XLE"): with no rows the factor model's loader raises
\* FileNotFoundError and the placebo's returns None.
LoadStep ==
    /\ pc = "start"
    /\ pc' = "done"
    /\ aligned' =
          IF xle_raw = <<>> THEN [AlignBlank EXCEPT !.status = "no data"]
          ELSE [AlignBlank EXCEPT !.status = "loaded",
                                  !.loaded = <<load_5m_data(xle_raw, index_tz)>>]
    /\ UNCHANGED <<rawVars, fm, placebo, retVars, betaVars, forVars, dlVars, leakVars, grVars>>

NextLoad == LoadStep

SpecLoad == InitLoad /\ [][NextLoad]_vars

(***************************************************************************)
(* Calls of download_ticker_data on a cache directory                      *)
(***************************************************************************)
InitDownload ==
    /\ pc = "start"
    /\ cache \in [DlFilenames -> {Absent, Corrupt}]
    /\ dl_call = DlCallNone
    /\ dl_res = DlNone
    /\ RetIdle /\ BetaIdle /\ ForIdle
    /\ FmIdle /\ LeakIdle /\ GrIdle

\* One call; dl_call keeps its arguments and the provider's part in it.
Download ==
    /\ \E ticker \in DlTickers, interval \in DlIntervals,
          force_refresh \in BOOLEAN :
       \E response \in ProviderResponses(ticker) :
       \E out \in {download_ticker_data(cache, ticker, DlStart, DlEnd, interval,
                                        force_refresh, response)} :
          /\ cache' = out.cache
          /\ dl_res' = out.res
          /\ dl_call' = [ticker |-> ticker, interval |-> interval,
                         force_refresh |-> force_refresh,
                         provider |-> out.provider]
    /\ pc' = "called"
    /\ UNCHANGED <<retVars, betaVars, forVars, fmVars, leakVars, grVars>>

NextDownload == Download

SpecDownload == InitDownload /\ [][NextDownload]_vars

(***************************************************************************)
(* One call of calculate_leak_spread                                       *)
(***************************************************************************)
InitLeak ==
    /\ pc = "start"
    /\ \E x \in LeakFrames(1), u \in LeakFrames(2) :
          frames = [NoFrames EXCEPT !.xle_df = x, !.uso_df = u]
    /\ leak_res = LeakBlank
    /\ corr = CorrBlank
    /\ RetIdle /\ BetaIdle /\ ForIdle /\ FmIdle /\ DlIdle /\ GrIdle

CallLeakSpread ==
    /\ pc = "start"
    /\ \E out \in {calculate_leak_spread(frames, EventDate)} :
          /\ frames' = out.heap
          /\ leak_res' = out.res
    /\ pc' = "done"
    /\ UNCHANGED <<corr, retVars, betaVars, forVars, fmVars, dlVars, grVars>>

NextLeak == CallLeakSpread

SpecLeak == InitLeak /\ [][NextLeak]_vars

(***************************************************************************)
(* Two correlated series through the spread and the CAR computations       *)
(***************************************************************************)
InitCorrelated ==
    /\ pc = "start"
    /\ \E cs \in CorrCloses, scale \in 1..MaxScale, offset \in 0..MaxOffset :
          /\ frames = [NoFrames EXCEPT
                          !.xle_df = Frame("America/New_York", CorrBars(cs)),
                          !.uso_df = Frame("America/New_York",
                                           CorrBars(Affine(cs, scale, offset)))]
          /\ corr = [CorrBlank EXCEPT !.scale = scale, !.offset = offset]
    /\ leak_res = LeakBlank
    /\ RetIdle /\ BetaIdle /\ ForIdle /\ FmIdle /\ DlIdle /\ GrIdle

\* forensics.py: the leak spread of the two series.
CorrelatedLeakSpread ==
    /\ pc = "start"
    /\ \E out \in {calculate_leak_spread(frames, EventDate)} :
          /\ frames' = out.heap
          /\ leak_res' = out.res
    /\ pc' = "spread"
    /\ UNCHANGED <<corr, retVars, betaVars, forVars, fmVars, dlVars, grVars>>

\* spread_control.py, lines 80-84: the day's spread of the two series.
CorrelatedDaySpread ==
    /\ pc = "spread"
    /\ corr' = [corr EXCEPT
                   !.day_spread = DaySpread(frames.xle_df.rows, frames.uso_df.rows)]
    /\ pc' = "placebo"
    /\ UNCHANGED <<frames, leak_res, retVars, betaVars, forVars, fmVars, dlVars, grVars>>

\* factor_model.py, lines 108-117: the CAR of the first series explained by
\* the second and a third factor, under the coefficients of a fit.
CorrelatedCar ==
    /\ pc = "placebo"
    /\ \E fit \in FitChoices :
          LET Y_test == Returns(frames.xle_df.rows)
              spy_test == Returns(frames.uso_df.rows)
              oil_test == Returns(OtherFactor(Len(frames.xle_df.rows)))
              residuals == Residuals(Y_test, Predict(fit.params, spy_test, oil_test))
          IN  corr' = [corr EXCEPT !.fit = fit.params,
                                   !.car = CumulativeAbnormal(residuals)]
    /\ pc' = "done"
    /\ UNCHANGED <<frames, leak_res, retVars, betaVars, forVars, fmVars, dlVars, grVars>>

NextCorrelated ==
    \/ CorrelatedLeakSpread
    \/ CorrelatedDaySpread
    \/ CorrelatedCar

SpecCorrelated == InitCorrelated /\ [][NextCorrelated]_vars

(***************************************************************************)
(* One call of get_return                                                  *)
(***************************************************************************)
InitGetReturn ==
    /\ pc = "start"
    /\ gr_df \in WindowResponses
    /\ gr_date = EventDate
    /\ gr_res = GrBlank
    /\ RetIdle /\ BetaIdle /\ ForIdle /\ FmIdle /\ DlIdle /\ LeakIdle

CallGetReturn ==
    /\ pc = "start"
    /\ gr_res' = get_return(gr_df, gr_date)
    /\ pc' = "done"
    /\ UNCHANGED <<gr_df, gr_date, retVars, betaVars, forVars, fmVars, dlVars, leakVars>>

NextGetReturn == CallGetReturn

SpecGetReturn == InitGetReturn /\ [][NextGetReturn]_vars

(***************************************************************************)
(* Properties of the return computation                                    *)
(***************************************************************************)
RECURSIVE CompoundFactor(_)
\* Product of (1 + v) over a sequence of values.
CompoundFactor(vs) ==
    IF vs = <<>> THEN One
    ELSE FMul(FAdd(One, Head(vs)), CompoundFactor(Tail(vs)))

\* C5: a price series of N bars yields exactly N-1 returns; return i is
\* stamped at bar i+1 and equals close[i+1]/close[i] - 1; 0 or 1 bars yield
\* an empty return series (and the computation completes).
ReturnsShape ==
    pc = "done" =>
        LET n == Len(price_series) IN
        /\ Len(return_series) = (IF n = 0 THEN 0 ELSE n - 1)
        /\ \A i \in 1..Len(return_series) :
              /\ return_series[i].t = price_series[i + 1].t
              /\ IsFinite(return_series[i].v)
              /\ FMul(FAdd(return_series[i].v, One), price_series[i].v)
                    = price_series[i + 1].v

ReturnsShapeWitness ==
    /\ pc = "done"
    /\ Len(price_series) = 3
    /\ Len(return_series) = 2
    /\ return_series[1].v # return_series[2].v

\* C6: for N >= 2 bars with positive closes, compounding all N-1 returns
\* reproduces close[N]/close[1] - 1.
CompoundTelescopes ==
    (pc = "done" /\ Len(price_series) >= 2) =>
        FSub(CompoundFactor(Values(return_series)), One)
            = FSub(FDiv(price_series[Len(price_series)].v, price_series[1].v), One)

CompoundTelescopesWitness ==
    /\ pc = "done"
    /\ Len(price_series) = 4
    /\ Len(return_series) = 3
    /\ price_series[4].v # price_series[1].v
    /\ price_series[2].v # price_series[3].v

(***************************************************************************)
(* Properties of run_beta_analysis and of the batch loops                  *)
(***************************************************************************)
EventAbsent(df) == EventDate \notin Labels(Returns(df.rows))

\* C1: whenever the event date is absent from the target's or from the
\* benchmark's return index, run_beta_analysis returns None and does not
\* raise.
MissingEventDateGivesNone ==
    (/\ pc = "done"
     /\ target_df.exists /\ market_df.exists
     /\ (EventAbsent(target_df) \/ EventAbsent(market_df)))
        => beta_res = BetaNone

\* C2: the batch loops never abort: no exception leaves a per-ticker
\* analysis, and once the loops are over every ticker of both lists (and
\* ITA) has been analysed, in order.
BatchNeverAborts ==
    /\ pc # "raised"
    /\ pc \in {"summary", "done"} =>
          analysed = contractors \o <<"ITA">> \o shipping_tickers

\* C10: with a zero residual standard deviation the analysis returns a
\* result whose z-score is NaN (neither an infinity nor a number) and whose
\* other fields are valid numbers.
ZeroStdGivesNaN ==
    (pc = "done" /\ beta_res.status = "result" /\ beta_res.residual_var = Zero) =>
        /\ IsNaN(beta_res.z_score.sq)
        /\ IsFinite(beta_res.beta)
        /\ IsFinite(beta_res.event_return)
        /\ IsFinite(beta_res.expected_return)
        /\ IsFinite(beta_res.abnormal_return)

(***************************************************************************)
(* Properties of the alignment                                             *)
(***************************************************************************)
\* The outputs share one index, every label of it occurs in every input,
\* and it is no longer than any input.
AlignedOn(outs, ins) ==
    /\ \A i, j \in 1..Len(outs) : Index(outs[i]) = Index(outs[j])
    /\ \A i \in 1..Len(outs) : Len(outs[1]) <= Len(ins[i])
    /\ \A i \in 1..Len(outs) : \A k \in 1..Len(outs[1]) :
          outs[1][k].t \in Labels(ins[i])

AbnormalAndCar ==
    pc = "done" =>
        /\ Len(fm.cum_residuals) = Len(fm.residuals)
        /\ \A k \in 1..Len(fm.residuals) :
              /\ fm.residuals[k].v =
                    FSub(fm.Y_test[k].v,
                         FAdd(fm.params.const,
                              FAdd(FMul(fm.params.SPY, fm.spy_test[k].v),
                                   FMul(fm.params.Oil, fm.oil_test[k].v))))
              /\ fm.cum_residuals[k].t = fm.residuals[k].t
              /\ fm.cum_residuals[k].v =
                    FSub(CompoundFactor(SubSeq(Values(fm.residuals), 1, k)), One)

AbnormalAndCarWitness ==
    /\ pc = "done"
    /\ fm.status = "ok"
    /\ Len(fm.residuals) = 3
    /\ \A k \in 1..3 : fm.residuals[k].v # Zero
    /\ fm.params.SPY # Zero /\ fm.params.Oil # Zero /\ fm.params.const # Zero
    /\ fm.total_car # FSum(Values(fm.residuals))

\* C4: for every interior split point b of the event window, compounding
\* CAR(start, b) with the CAR of the bars after b gives CAR(start, end).
CarAssociative ==
    pc = "done" =>
        \A b \in 1..(Len(fm.residuals) - 1) :
            LET n == Len(fm.residuals)
                rest == CumulativeAbnormal(SubSeq(fm.residuals, b + 1, n))
                car_ab == fm.cum_residuals[b].v
                car_bc == rest[Len(rest)].v
            IN  FSub(FMul(FAdd(One, car_ab), FAdd(One, car_bc)), One)
                    = fm.cum_residuals[n].v

CarAssociativeWitness ==
    /\ pc = "done"
    /\ fm.status = "ok"
    /\ Len(fm.residuals) = 3
    /\ fm.cum_residuals[1].v # Zero
    /\ fm.cum_residuals[2].v # fm.cum_residuals[1].v
    /\ fm.cum_residuals[3].v # fm.cum_residuals[2].v

(***************************************************************************)
(* Properties of the percentile rank                                       *)
(***************************************************************************)
Below(samples, x) == {k \in 1..Len(samples) : FLt(samples[k], x)}
Equal(samples, x) == {k \in 1..Len(samples) : samples[k] = x}
IsMaxOf(samples, x) ==
    /\ Equal(samples, x) # {}
    /\ \A k \in 1..Len(samples) : ~FLt(x, samples[k])

\* C8: with n >= 1 daily statistics the percentile is 100 * (number of
\* statistics strictly below the event value) / n; values equal to the event
\* value are not counted; an event value below the minimum has percentile 0.
PercentileStrictlyLess ==
    (pc = "done" /\ placebo.status = "ok" /\ Len(placebo.daily_max_spreads) >= 1) =>
        LET samples == placebo.daily_max_spreads
            n == Len(samples)
        IN  /\ FMul(placebo.percentile, R(n))
                  = R(100 * Cardinality(Below(samples, EventVal)))
            /\ (\A k \in 1..n : FLt(EventVal, samples[k]))
                  => placebo.percentile = Zero

PercentileStrictlyLessWitness ==
    /\ pc = "done"
    /\ placebo.status = "ok"
    /\ Len(placebo.daily_max_spreads) = 3
    /\ Cardinality(Below(placebo.daily_max_spreads, EventVal)) = 1
    /\ Cardinality(Equal(placebo.daily_max_spreads, EventVal)) = 1
    /\ placebo.percentile = <<100, 3>>

\* C9 as stated: an event value equal to the sample maximum has percentile
\* 100 * (n - 1) / n.
PercentileOfMaximum ==
    (/\ pc = "done" /\ placebo.status = "ok"
     /\ Len(placebo.daily_max_spreads) >= 1
     /\ IsMaxOf(placebo.daily_max_spreads, EventVal)) =>
        FMul(placebo.percentile, R(Len(placebo.daily_max_spreads)))
            = R(100 * (Len(placebo.daily_max_spreads) - 1))

\* C9 amended: an event value equal to the sample maximum has percentile
\* 100 * (n - k) / n, where k is the number of sample values equal to the
\* maximum; 100 * (n - 1) / n exactly when the maximum is attained once.
PercentileOfMaximumTies ==
    (/\ pc = "done" /\ placebo.status = "ok"
     /\ Len(placebo.daily_max_spreads) >= 1
     /\ IsMaxOf(placebo.daily_max_spreads, EventVal)) =>
        LET samples == placebo.daily_max_spreads
            n == Len(samples)
            kmax == Cardinality(Equal(samples, EventVal))
        IN  /\ FMul(placebo.percentile, R(n)) = R(100 * (n - kmax))
            /\ (placebo.percentile = FDiv(R(100 * (n - 1)), R(n))) <=> (kmax = 1)

PercentileOfMaximumTiesWitness ==
    /\ pc = "done"
    /\ placebo.status = "ok"
    /\ Len(placebo.daily_max_spreads) = 3
    /\ IsMaxOf(placebo.daily_max_spreads, EventVal)
    /\ Cardinality(Equal(placebo.daily_max_spreads, EventVal)) = 2
    /\ placebo.percentile = <<100, 3>>

(***************************************************************************)
(* Properties of download_ticker_data                                      *)
(***************************************************************************)
DlFile(call) == Filename(call.ticker, DlStart, DlEnd, call.interval)

\* C20: a call in which the provider returns no rows returns no series and
\* leaves every file of the cache, the file of the call's key included,
\* exactly as it was before the call.
EmptyDownloadWritesNothing ==
    [][dl_call'.provider = "empty" => (dl_res' = DlNone /\ cache' = cache)]_vars

EmptyDownloadWitness ==
    /\ pc = "called"
    /\ dl_call.provider = "empty"
    /\ dl_call.force_refresh
    /\ dl_res = DlNone
    /\ cache[DlFile(dl_call)].state = "parquet"
    /\ \E f \in DlFilenames : cache[f].state = "corrupt"

(***************************************************************************)
(* Properties of the sample-size checks                                    *)
(***************************************************************************)
\* The returns of the aligned intraday series stamped before the training
\* cutoff, counted on the loaded files: every common bar but the first
\* carries a return.
TrainingBars ==
    LET c == CommonIndex3(load_5m_data(xle_raw, index_tz),
                          load_5m_data(spy_raw, index_tz),
                          load_5m_data(oil_raw, index_tz))
    IN  Cardinality({k \in 2..Len(c) : c[k] < TrainCutoff})

\* C11: with fewer than 100 training bars run_factor_model ends with the
\* insufficient-data outcome, without a fit: no coefficients, no residual
\* deviation, no CAR and no z-score; with 100 bars or more the fit is made
\* and its coefficients are the model's.
MinimumTrainingBars ==
    (pc = "done" /\ xle_raw # <<>> /\ spy_raw # <<>> /\ oil_raw # <<>>) =>
        IF TrainingBars < 100
        THEN /\ fm.status = "insufficient"
             /\ IsNaN(fm.params.const) /\ IsNaN(fm.params.SPY) /\ IsNaN(fm.params.Oil)
             /\ IsNaN(fm.resid_var)
             /\ fm.cum_residuals = <<>>
             /\ IsNaN(fm.total_car)
             /\ IsNaN(fm.z_score_car.sq)
             /\ fm.conclusion = "none"
        ELSE /\ fm.status # "insufficient"
             /\ \E f \in FitChoices :
                   fm.params = f.params /\ fm.resid_var = f.resid_var

MinimumTrainingBarsWitness ==
    /\ pc = "done"
    /\ fm.status = "insufficient"
    /\ TrainingBars = 99
    /\ \E k \in 1..Len(xle_raw) : DayOf(xle_raw[k].t) = EventDate

\* Dates before the event date that carry a return of both files.
CommonHistoryDates ==
    {d \in Labels(Returns(target_df.rows)) \cap Labels(Returns(market_df.rows)) :
        d < EventDate}

\* C12: with fewer than 30 dates common to the target's and the benchmark's
\* pre-event returns, run_beta_analysis gives no result record: no beta,
\* expected return, abnormal return or z-score for the ticker.
ShortHistoryGivesNoResult ==
    (/\ pc = "done"
     /\ target_df.exists /\ market_df.exists
     /\ Cardinality(CommonHistoryDates) < 30)
        => beta_res.status # "result"

\* The returns of the aligned intraday series stamped on the event date,
\* counted on the loaded files.
EventWindowBars ==
    LET c == CommonIndex3(load_5m_data(xle_raw, index_tz),
                          load_5m_data(spy_raw, index_tz),
                          load_5m_data(oil_raw, index_tz))
    IN  Cardinality({k \in 2..Len(c) : DayOf(c[k]) = EventDate})

\* C13: when the event window holds no bar the run ends in an error (after
\* a fit, the exception of the empty window, which the handler prints) and
\* reports no CAR, no CAR z-score, no CAR at the boundary, no surge and no
\* conclusion.
EmptyWindowFails ==
    (/\ pc = "done"
     /\ xle_raw # <<>> /\ spy_raw # <<>> /\ oil_raw # <<>>
     /\ EventWindowBars = 0)
        => /\ fm.status = (IF TrainingBars < 100 THEN "insufficient" ELSE "IndexError")
           /\ fm.cum_residuals = <<>>
           /\ IsNaN(fm.total_car)
           /\ IsNaN(fm.z_score_car.sq)
           /\ IsNaN(fm.car_at_leak)
           /\ IsNaN(fm.surge)
           /\ fm.conclusion = "none"

EmptyWindowFailsWitness ==
    /\ pc = "done"
    /\ EventWindowBars = 0
    /\ TrainingBars >= 100
    /\ fm.status = "IndexError"
    /\ IsFinite(fm.params.SPY)

(***************************************************************************)
(* Properties of the sub-window boundary                                   *)
(***************************************************************************)
\* Event-window bars stamped before the boundary, and up to it.
BarsBefore == {k \in 1..Len(fm.residuals) : fm.residuals[k].t < LeakStart}
BarsUpTo == {k \in 1..Len(fm.residuals) : fm.residuals[k].t <= LeakStart}
BarsFrom == {k \in 1..Len(fm.residuals) : fm.residuals[k].t >= LeakStart}

\* CAR over the first n bars of the event window.
CarOfFirst(n) == FSub(CompoundFactor(SubSeq(Values(fm.residuals), 1, n)), One)

\* C14: the reported surge is CAR(start, end) - CAR(start, t*), where
\* CAR(start, t*) covers every bar stamped at or before t*: a bar stamped
\* exactly at t* adds nothing to the surge.
SurgeStrictlyAfterBoundary ==
    (pc = "done" /\ fm.status = "ok" /\ BarsFrom # {}) =>
        /\ fm.car_at_leak = CarOfFirst(Cardinality(BarsUpTo))
        /\ fm.surge = FSub(fm.total_car, CarOfFirst(Cardinality(BarsUpTo)))

\* C14 (amended): when the event window has a bar stamped before t* and a
\* bar stamped at or after t*, the reported surge is CAR(start, end) minus
\* the CAR over the bars stamped strictly before t*; a bar stamped exactly
\* at t* belongs to the surge.
SurgeFromBoundary ==
    (pc = "done" /\ fm.status = "ok" /\ BarsFrom # {}) =>
        /\ BarsBefore # {}
        /\ fm.car_at_leak = CarOfFirst(Cardinality(BarsBefore))
        /\ fm.surge = FSub(fm.total_car, CarOfFirst(Cardinality(BarsBefore)))
        /\ fm.total_car = CarOfFirst(Len(fm.residuals))

SurgeFromBoundaryWitness ==
    /\ pc = "done"
    /\ fm.status = "ok"
    /\ \E k \in 2..(Len(fm.residuals) - 1) :
          /\ fm.residuals[k].t = LeakStart
          /\ fm.residuals[k].v # Zero
    /\ fm.surge # FSub(fm.total_car, CarOfFirst(Cardinality(BarsUpTo)))

(***************************************************************************)
(* Properties of the result of run_beta_analysis                           *)
(***************************************************************************)
\* The dates of the (target, benchmark) pairs of the pre-event history: a
\* target return dated before the event date, and the benchmark return of
\* that date when the history mask, laid on the benchmark's returns by
\* position, keeps it.
HistoryPairDates(trets, mrets) ==
    {d \in Labels(trets) \cap Labels(mrets) :
        /\ d < EventDate
        /\ \E j \in 1..Len(mrets) : mrets[j].t = d /\ trets[j].t < EventDate}

\* target_i - beta * benchmark_i over the dates ds.
HistoryResiduals(trets, mrets, beta, ds) ==
    [k \in 1..Len(ds) |-> FSub(At(trets, ds[k]), FMul(beta, At(mrets, ds[k])))]

\* The variance of the historical residuals of the run's files under the
\* reported beta.
HistoryResidualVariance ==
    LET trets == Returns(target_df.rows)
        mrets == Returns(market_df.rows)
        ds == SortSet(HistoryPairDates(trets, mrets))
        rs == HistoryResiduals(trets, mrets, beta_res.beta, ds)
        n == Len(rs)
    IN  IF n < 2 THEN NaN
        ELSE FDiv(FSub(FSum([k \in 1..n |-> FMul(rs[k], rs[k])]),
                       FDiv(FMul(FSum(rs), FSum(rs)), R(n))),
                  R(n - 1))

FitSampleBeforeEvent ==
    (pc = "done" /\ beta_res.status = "result") =>
        \E trets \in {Returns(target_df.rows)} :
        \E mrets \in {Returns(market_df.rows)} :
        \E idx \in {beta_res.fit_index} :
            /\ \A k \in 1..Len(idx) :
                  /\ idx[k] < EventDate
                  /\ idx[k] \in Labels(trets) \cap Labels(mrets)
            /\ \A k \in 1..Len(beta_res.residual_index) :
                  beta_res.residual_index[k] < EventDate
            /\ beta_res.beta =
                  IF Len(idx) < 30 THEN NaN
                  ELSE LinregressSlope([k \in 1..Len(idx) |-> At(mrets, idx[k])],
                                       [k \in 1..Len(idx) |-> At(trets, idx[k])])

\* The history mask, made on the target's dates, keeps by position a
\* benchmark return of the event date; the fit still leaves it out.
FitSampleBeforeEventWitness ==
    /\ pc = "done"
    /\ beta_res.status = "result"
    /\ IsFinite(beta_res.beta)
    /\ Len(beta_res.fit_index) >= 30
    /\ beta_res.residual_index = beta_res.fit_index
    /\ \E j \in 1..Len(Returns(market_df.rows)) :
          /\ Returns(market_df.rows)[j].t = EventDate
          /\ Returns(target_df.rows)[j].t < EventDate

(***************************************************************************)
(* Properties of the significance verdict                                  *)
(***************************************************************************)
\* |z| > 1.96 on a z-score carried by its square n/d: the square is a number
\* above 1.96^2 = 2401/625, or the z-score is infinite.
AboveThreshold(z) ==
    \/ z.sq = PosInf
    \/ z.sq[2] > 0 /\ 625 * z.sq[1] > 2401 * z.sq[2]

\* C17: a result is reported significant if and only if |z_score| > 1.96;
\* a z-score of exactly 1.96 or -1.96, and a NaN z-score, are reported as
\* not significant.
SignificanceRule ==
    pc = "done" =>
        /\ Len(report) = 1
        /\ report[1].z_score = beta_res.z_score
        /\ report[1].significant <=> AboveThreshold(beta_res.z_score)
        /\ beta_res.z_score.sq \in {NaN, <<2401, 625>>} => ~report[1].significant

SignificanceRuleWitness ==
    /\ pc = "done"
    /\ beta_res.z_score = [sgn |-> -1, sq |-> <<2401, 625>>]
    /\ ~report[1].significant

(***************************************************************************)
(* Properties of the baseline distribution                                 *)
(***************************************************************************)
\* Timestamps of baseline day d common to the two loaded series.
DayCommon(xle, oil, d) ==
    {t \in Labels(xle) \cap Labels(oil) : DayOf(t) = d /\ t < TrainCutoff}

\* Baseline days with at least 30 common bars, oldest first.
QualifyingDays(xle, oil) ==
    SortSet({d \in {DayOf(t) : t \in Labels(xle)} :
                Cardinality(DayCommon(xle, oil, d)) >= 30})

\* Spread at t of the two series, each divided by its value at the first
\* common bar of the day, in percent.
SpreadPercent(xle, oil, first, t) ==
    FMul(FSub(FDiv(At(xle, t), At(xle, first)), FDiv(At(oil, t), At(oil, first))),
         R(100))

\* m is the largest spread of day d.
IsDayMaximum(xle, oil, d, m) ==
    \E bars \in {DayCommon(xle, oil, d)} :
    \E first \in {CHOOSE t \in bars : \A u \in bars : t <= u} :
        /\ \E t \in bars : SpreadPercent(xle, oil, first, t) = m
        /\ \A t \in bars : ~FLt(m, SpreadPercent(xle, oil, first, t))

\* C18: the baseline sample holds one statistic per baseline day with at
\* least 30 bars common to both series, in day order: the maximum over the
\* day of the spread of the two series normalised to their first bar of the
\* day; a day with fewer common bars adds nothing and the run completes.
OneStatisticPerQualifyingDay ==
    (pc = "done" /\ xle_raw # <<>> /\ oil_raw # <<>>) =>
        \E xle \in {load_5m_data(xle_raw, index_tz)} :
        \E oil \in {load_5m_data(oil_raw, index_tz)} :
        \E days \in {QualifyingDays(xle, oil)} :
            /\ placebo.status = "ok"
            /\ Len(placebo.daily_max_spreads) = Len(days)
            /\ \A i \in 1..Len(days) :
                  IsDayMaximum(xle, oil, days[i], placebo.daily_max_spreads[i])

OneStatisticPerQualifyingDayWitness ==
    /\ pc = "done"
    /\ placebo.status = "ok"
    /\ Len(placebo.unique_dates) = 3
    /\ Len(placebo.daily_max_spreads) = 2
    /\ placebo.daily_max_spreads[1] # placebo.daily_max_spreads[2]
    /\ placebo.daily_max_spreads[1] # Zero

(***************************************************************************)
(* Properties of load_5m_data                                              *)
(***************************************************************************)
\* The New York wall-clock time of a timestamp of the file: UTC is five
\* hours ahead; a naive index is read as New York time.
NewYorkTime(t) == IF index_tz = "UTC" THEN t - 300 ELSE t

\* 09:30 <= time of day in New York <= 16:00, in minutes.
InSession(t) == NewYorkTime(t) % 1440 >= 570 /\ NewYorkTime(t) % 1440 <= 960

\* C19: the series load_5m_data returns has strictly increasing timestamps;
\* every bar of it is the first row of the files with its timestamp and has
\* a New York time of day from 09:30 to 16:00; and every timestamp of the
\* files inside that window, 09:30 and 16:00 included, is retained.
LoadedSeriesInvariant ==
    (pc = "done" /\ aligned.status = "loaded") =>
        \E s \in {aligned.loaded[1]} :
            /\ \A k \in 1..(Len(s) - 1) : s[k].t < s[k + 1].t
            /\ \A k \in 1..Len(s) :
                  /\ s[k].t % 1440 >= 570 /\ s[k].t % 1440 <= 960
                  /\ \E j \in 1..Len(xle_raw) :
                        /\ NewYorkTime(xle_raw[j].t) = s[k].t
                        /\ xle_raw[j].v = s[k].v
                        /\ \A i \in 1..(j - 1) : xle_raw[i].t # xle_raw[j].t
            /\ \A j \in 1..Len(xle_raw) :
                  InSession(xle_raw[j].t) =>
                      \E k \in 1..Len(s) : s[k].t = NewYorkTime(xle_raw[j].t)

\* A file in UTC, out of order and with a repeated timestamp, whose bars of
\* 09:30 and 16:00 New York time are both kept.
LoadedSeriesWitness ==
    /\ pc = "done"
    /\ aligned.status = "loaded"
    /\ index_tz = "UTC"
    /\ Len(xle_raw) = 3
    /\ xle_raw[1].t > xle_raw[2].t
    /\ xle_raw[3].t = xle_raw[1].t
    /\ Len(aligned.loaded[1]) = 2
    /\ aligned.loaded[1][1].t % 1440 = 570
    /\ aligned.loaded[1][2].t % 1440 = 960

\* C25: the sample of the fit of beta is exactly the set of dates strictly
\* before the event date that carry a return of both the target and the
\* benchmark: no such date is left out, also when the two files do not cover
\* the same dates.
FitSampleIsCommonHistory ==
    (pc = "done" /\ beta_res.status = "result" /\ IsFinite(beta_res.beta)) =>
        {beta_res.fit_index[k] : k \in 1..Len(beta_res.fit_index)}
            = CommonHistoryDates

\* C26: the cache file name identifies the request, so a call answered from
\* the cache returns rows that were downloaded for the ticker it asks for.
CachedLoadIsOfRequest ==
    (pc = "called" /\ dl_call.provider = "not called") =>
        \A k \in 1..Len(dl_res.df) :
            dl_res.df[k].v = ProviderClose(dl_call.ticker)

(***************************************************************************)
(* Properties of calculate_leak_spread                                     *)
(***************************************************************************)
\* C22: calculate_leak_spread treats its inputs as read-only: after any
\* call, with a spread or with no result, the caller's two frames have the
\* timestamps, timezone, order and values they had before the call.
LeakInputsReadOnly ==
    [][pc' = "done" =>
          /\ frames'.xle_df = frames.xle_df
          /\ frames'.uso_df = frames.uso_df]_vars

\* A call that returned a spread and whose day frames were converted from
\* UTC to New York time and cut to the session.
LeakInputsReadOnlyWitness ==
    /\ pc = "done"
    /\ leak_res.status = "result"
    /\ frames.xle_df.tz = "UTC" /\ frames.uso_df.tz = "UTC"
    /\ frames.xle_day.tz = "America/New_York"
    /\ Len(frames.xle_day.rows) >= 2
    /\ \A k \in 1..Len(frames.xle_day.rows) :
          \A j \in 1..Len(frames.xle_df.rows) :
              frames.xle_day.rows[k].t # frames.xle_df.rows[j].t
    /\ Len(frames.xle_df.rows) > Len(frames.xle_day.rows)

\* C23: after the reindexing to the union of the timestamps and the forward
\* fill, both normalised series are 1.0 at the first timestamp of the common
\* index and the spread there is 0, for any two non-empty day series, also
\* when their first bars have different timestamps.
NormalisedFromOne ==
    (pc = "done" /\ leak_res.status = "result") =>
        /\ leak_res.xle_norm[1].v = One
        /\ leak_res.uso_norm[1].v = One
        /\ leak_res.spread[1].v = Zero

(***************************************************************************)
(* Properties of correlated series                                         *)
(***************************************************************************)
\* The coefficients of a fit that reproduces the first series by the second.
ExactFit == [const |-> Zero, SPY |-> One, Oil |-> Zero]

\* The normalised spread of both computations is 0 at every bar of the
\* session, and so is the CAR under an exact fit.
ZeroSpreadAndCar ==
    /\ leak_res.status = "result"
    /\ Len(leak_res.spread) = Len(frames.xle_df.rows)
    /\ \A k \in 1..Len(leak_res.spread) : leak_res.spread[k].v = Zero
    /\ Len(corr.day_spread) = Len(frames.xle_df.rows)
    /\ \A k \in 1..Len(corr.day_spread) : corr.day_spread[k] = Zero
    /\ corr.fit = ExactFit =>
          /\ Len(corr.car) = Len(frames.xle_df.rows) - 1
          /\ \A k \in 1..Len(corr.car) : corr.car[k].v = Zero

\* C21: two intraday series with perfectly correlated prices (the second is
\* scale * first + offset with scale > 0), each rebased to 1.0 at the first
\* bar of the session, have a normalised spread of 0 and a cumulative
\* abnormal return of 0 at every bar.
CorrelatedGivesZero == pc = "done" => ZeroSpreadAndCar

\* C21, amended: two series on the same session bars with proportional
\* prices (the second is scale * first), each rebased to 1.0 at the first
\* bar, have a normalised spread of 0 at every bar, and a cumulative
\* abnormal return of 0 at every bar when the fit reproduces the first
\* series by the second.
ProportionalGivesZero == (pc = "done" /\ corr.offset = 0) => ZeroSpreadAndCar

ProportionalGivesZeroWitness ==
    /\ pc = "done"
    /\ corr.offset = 0 /\ corr.scale = 2
    /\ Len(leak_res.spread) >= 3
    /\ leak_res.xle_norm[2].v # One
    /\ leak_res.xle_norm[3].v # leak_res.xle_norm[2].v
    /\ frames.uso_df.rows[2].v # frames.xle_df.rows[2].v
    /\ corr.fit = ExactFit
    /\ Len(corr.car) >= 2

(***************************************************************************)
(* Properties of get_return                                                *)
(***************************************************************************)
\* The positions of the window's trading days at or after the event date.
AtOrAfter == {k \in 1..Len(gr_df.df) : gr_df.df[k].t >= gr_date}

=============================================================================
